---- MODULE Spec2Model ----
(***************************************************************************)
(* libweave command core: one CommandInstance, its lifecycle state machine *)
(* (SetProgress, SetResults, SetError, Pause, Abort, Cancel, SetStatus),   *)
(* its observer notifications, construction by FromJson, serialization by  *)
(* ToJson, and the CommandQueue that owns it and removes it with delay.    *)
(***************************************************************************)
EXTENDS Integers, Sequences, FiniteSets, TLC

(***************************************************************************)
(* Bounds of the model.                                                    *)
(***************************************************************************)
\* Commands constructed in one run (caps next_command_id_).
MaxCommands == 2
\* Integer values a progress or results document carries: 0..MaxValue.
MaxValue == 1

(***************************************************************************)
(* enum class CommandStatus, enum class CommandOrigin and their string     *)
(* tables.                                                                 *)
(***************************************************************************)
kQueued == 0
kInProgress == 1
kPaused == 2
kError == 3
kDone == 4
kCancelled == 5
kAborted == 6
kExpired == 7

CommandStatus ==
  {kQueued, kInProgress, kPaused, kError, kDone, kCancelled, kAborted, kExpired}

kLocal == 0
kCloud == 1

CommandOrigin == {kLocal, kCloud}

kMapStatus ==
  << <<kQueued, "queued">>, <<kInProgress, "inProgress">>,
     <<kPaused, "paused">>, <<kError, "error">>, <<kDone, "done">>,
     <<kCancelled, "cancelled">>, <<kAborted, "aborted">>,
     <<kExpired, "expired">> >>

kMapOrigin == << <<kLocal, "local">>, <<kCloud, "cloud">> >>

\* EnumToString: the name of the first table entry whose id is the value.
EnumToStringIn(map, id) ==
  LET hits == {i \in 1..Len(map) : map[i][1] = id}
      first == CHOOSE i \in hits : \A j \in hits : i <= j
  IN map[first][2]

EnumToString(status) == EnumToStringIn(kMapStatus, status)

(***************************************************************************)
(* Error codes and the ErrorPtr chain (newest error first).                *)
(***************************************************************************)
kCommandDestroyed == "command_destroyed"
kInvalidState == "invalid_state"
kObjectExpected == "object_expected"
kPropertyMissing == "parameter_missing"
kInvalidCommandName == "invalid_command_name"
kCommandFailed == "command_failed"
kUnknownProperty == "unexpected_parameter"
kTypeMismatch == "type_mismatch"
kInvalidPropValue == "invalid_parameter_value"

\* Error::AddTo: the new error becomes the head of the chain.
AddTo(error, code, message) ==
  <<[code |-> code, message |-> message]>> \o error

NoError == <<>>

ReportDestroyedError(w) ==
  [w EXCEPT !.ret = FALSE,
            !.error = AddTo(@, kCommandDestroyed,
                            <<"Command has been destroyed">>)]

ReportInvalidStateTransition(w, from, to) ==
  [w EXCEPT !.ret = FALSE,
            !.error = AddTo(@, kInvalidState,
                            <<"State switch impossible",
                              EnumToString(from), EnumToString(to)>>)]

(***************************************************************************)
(* JSON values (base::Value): a string, an integer or a dictionary.        *)
(***************************************************************************)
EmptyDict == [k \in {} |-> 0]

JString(s) == [t |-> "string", v |-> s, d |-> EmptyDict]
JInteger(n) == [t |-> "integer", v |-> ToString(n), d |-> EmptyDict]
JDict(f) == [t |-> "dict", v |-> "", d |-> f]

IsDict(value) == value.t = "dict"
IsString(value) == value.t = "string"

\* DictionaryValue::GetString: the string under key, if there is one.
HasString(json, key) == key \in DOMAIN json.d /\ IsString(json.d[key])

(***************************************************************************)
(* Schemas and typed values: PropType, ValueMap, TypedValueFromJson and    *)
(* TypedValueToJson.                                                       *)
(***************************************************************************)
IntValues == 0..MaxValue

\* One property type: its kind, its enumeration ({} when unconstrained) and
\* whether a document may leave the property out.
PropType(type, enum, optional) ==
  [type |-> type, enum |-> enum, optional |-> optional]

\* The typed value a JSON leaf stands for.
NativeValue(value) ==
  IF value.t = "integer"
    THEN CHOOSE n \in IntValues : ToString(n) = value.v
    ELSE value.v

\* The first error of a document against an object schema, "" when it
\* conforms: a property the schema does not declare, then a value of the
\* wrong type, then a string outside the enumeration, then a missing
\* property that is not optional.
ValidationError(dict, schema) ==
  LET unknown == {k \in DOMAIN dict : k \notin DOMAIN schema}
      declared == DOMAIN dict \cap DOMAIN schema
      mismatch == {k \in declared : dict[k].t # schema[k].type}
      outside == {k \in declared \ mismatch :
                    schema[k].enum # {} /\ dict[k].v \notin schema[k].enum}
      missing == {k \in DOMAIN schema :
                    k \notin DOMAIN dict /\ ~schema[k].optional}
  IN IF unknown # {} THEN kUnknownProperty
     ELSE IF mismatch # {} THEN kTypeMismatch
     ELSE IF outside # {} THEN kInvalidPropValue
     ELSE IF missing # {} THEN kPropertyMissing
     ELSE ""

\* TypedValueFromJson for an object: the whole ValueMap, or the first error
\* and no value at all.
TypedValueFromJson(dict, schema) ==
  LET code == ValidationError(dict, schema)
  IN IF code = ""
       THEN [ok |-> TRUE, code |-> "",
             obj |-> [k \in DOMAIN dict |->
                        [type |-> schema[k].type,
                         value |-> NativeValue(dict[k])]]]
       ELSE [ok |-> FALSE, code |-> code, obj |-> EmptyDict]

\* TypedValueToJson: the document of a ValueMap.
TypedValueToJson(obj) ==
  [k \in DOMAIN obj |->
     IF obj[k].type = "integer" THEN JInteger(obj[k].value)
     ELSE JString(obj[k].value)]

(***************************************************************************)
(* CommandDefinition and CommandDictionary.                                *)
(***************************************************************************)
CommandDefinition(parameters, progress, results) ==
  [parameters |-> parameters, progress |-> progress, results |-> results]

\* The registered definitions: lock.setConfig of the lock daemon, and a
\* command that declares progress and results.
Definitions ==
  [name \in {"lock.setConfig", "robot.jump"} |->
     IF name = "lock.setConfig"
       THEN CommandDefinition(
              [lockedState |-> PropType("string", {"locked", "unlocked"}, TRUE)],
              EmptyDict, EmptyDict)
       ELSE CommandDefinition(
              [height |-> PropType("integer", {}, TRUE)],
              [progress |-> PropType("integer", {}, TRUE)],
              [testResult |-> PropType("integer", {}, FALSE)])]

\* A null CommandDefinition pointer.
NullDefinition == ""

\* CommandDictionary::FindCommand: the definition's name, or null.
FindCommand(name) ==
  IF name \in DOMAIN Definitions THEN name ELSE NullDefinition

(***************************************************************************)
(* CommandInstance: its fields, ToJson, and the observers it notifies.     *)
(*                                                                         *)
(* The operations below transform a "world" w: the instance (w.cmd), the   *)
(* removals its queue has been asked for (w.remove_queue_), the events of  *)
(* the running call in order (w.log), and the running call's return value  *)
(* and ErrorPtr (w.ret, w.error).                                          *)
(***************************************************************************)
\* No instance: none constructed yet, or the last one destroyed.
NoCommand == [exists |-> FALSE]

\* An empty slot of the observer list (an observer removed while the list
\* is being iterated).
NullObserver == ""

\* The constructor: name, origin, definition and parameters as given, the
\* other members at their defaults.
CommandInstance(name, origin, command_definition, parameters) ==
  [id_ |-> "", name_ |-> name, origin_ |-> origin,
   command_definition_ |-> command_definition,
   parameters_ |-> parameters, progress_ |-> EmptyDict,
   results_ |-> EmptyDict, status_ |-> kQueued, error_ |-> NoError,
   observers_ |-> <<>>, notify_depth_ |-> 0, queue_ |-> FALSE]

\* GetParameters: the parameters as a document.
GetParameters(c) == JDict(TypedValueToJson(c.parameters_))

\* ErrorInfoToJson of the recorded error.
ErrorInfoToJson(e) ==
  JDict([code |-> JString(e.code), message |-> JString(e.message[1])])

\* ToJson that writes the error only while the status is the error status.
ToJson_ErrorByStatus(c) ==
  JDict([id |-> JString(c.id_),
         name |-> JString(c.name_),
         parameters |-> JDict(TypedValueToJson(c.parameters_)),
         progress |-> JDict(TypedValueToJson(c.progress_)),
         results |-> JDict(TypedValueToJson(c.results_)),
         state |-> JString(EnumToString(c.status_))]
        @@ (IF c.status_ = kError /\ c.error_ # NoError
              THEN [error |-> ErrorInfoToJson(c.error_[1])]
              ELSE EmptyDict))

\* ToJson: id, name, parameters, progress, results, state, and error when
\* one is recorded.
ToJson(c) ==
  JDict([id |-> JString(c.id_),
         name |-> JString(c.name_),
         parameters |-> JDict(TypedValueToJson(c.parameters_)),
         progress |-> JDict(TypedValueToJson(c.progress_)),
         results |-> JDict(TypedValueToJson(c.results_)),
         state |-> JString(EnumToString(c.status_))]
        @@ (IF c.error_ # NoError
              THEN [error |-> ErrorInfoToJson(c.error_[1])]
              ELSE EmptyDict))

\* What each observer does in its callbacks, beyond reading the instance:
\* the two proxies only read; "canceller" cancels a command it sees go
\* in progress; "unsubscriber" removes itself at the first notification.
PassiveObservers == {"cloud", "local"}
ReactiveObservers == {"canceller", "unsubscriber"}

\* One event of a call, with the instance as ToJson shows it at that point.
Event(kind, to, c) == [kind |-> kind, to |-> to, json |-> ToJson(c)]

\* The world a call starts from.
World(c, rq) ==
  [cmd |-> c, remove_queue_ |-> rq, log |-> <<>>, ret |-> TRUE,
   error |-> NoError]

\* A call made from inside a callback has its own return value and ErrorPtr.
Nested(outer, inner) ==
  [inner EXCEPT !.ret = outer.ret, !.error = outer.error]

\* CommandQueue::DelayedRemove: the id is scheduled for removal, nothing is
\* destroyed in the call.
DelayedRemove(w, id) ==
  [w EXCEPT !.remove_queue_ = @ \cup {id},
            !.log = Append(@, Event("DelayedRemove", "CommandQueue", w.cmd))]

\* ObserverList::AddObserver: appended, unless it is in the list already.
AddObserver(w, observer) ==
  IF \E i \in 1..Len(w.cmd.observers_) : w.cmd.observers_[i] = observer
    THEN w
    ELSE [w EXCEPT !.cmd.observers_ = Append(@, observer)]

\* ObserverList::Compact: the emptied slots are dropped.
Compact(observers) == SelectSeq(observers, LAMBDA o : o # NullObserver)

\* RemoveObserver that erases the observer from the list even while the
\* list is being iterated.
RemoveObserver_ErasesInPlace(w, observer) ==
  [w EXCEPT !.cmd.observers_ = SelectSeq(@, LAMBDA o : o # observer)]

\* ObserverList::RemoveObserver: erased, or only emptied while the list is
\* being iterated.
RemoveObserver(w, observer) ==
  IF w.cmd.notify_depth_ > 0
    THEN [w EXCEPT !.cmd.observers_ =
            [i \in 1..Len(@) |-> IF @[i] = observer THEN NullObserver ELSE @[i]]]
    ELSE [w EXCEPT !.cmd.observers_ = SelectSeq(@, LAMBDA o : o # observer)]

RECURSIVE ForEachObserver(_, _, _)
RECURSIVE SetStatus(_, _)
RECURSIVE Cancel(_)

\* One observer's callback: it reads the instance, then reacts.
Callback(w, observer, kind) ==
  LET seen == [w EXCEPT !.log = Append(@, Event(kind, observer, w.cmd))]
  IN IF observer = "canceller" /\ kind = "OnStatusChanged"
          /\ w.cmd.status_ = kInProgress
       THEN Nested(seen, Cancel(seen))
     ELSE IF observer = "unsubscriber"
       THEN RemoveObserver(seen, observer)
     ELSE seen

\* FOR_EACH_OBSERVER from slot i on: by index, skipping emptied slots, over
\* the list as it is when each slot is reached.
ForEachObserver(w, kind, i) ==
  IF i > Len(w.cmd.observers_) THEN w
  ELSE IF w.cmd.observers_[i] = NullObserver
    THEN ForEachObserver(w, kind, i + 1)
  ELSE ForEachObserver(Callback(w, w.cmd.observers_[i], kind), kind, i + 1)

\* FOR_EACH_OBSERVER: the list is compacted when the outermost iteration
\* ends.
NotifyObservers(w, kind) ==
  LET entered == [w EXCEPT !.cmd.notify_depth_ = @ + 1]
      done == ForEachObserver(entered, kind, 1)
      depth == done.cmd.notify_depth_ - 1
  IN [done EXCEPT !.cmd.notify_depth_ = depth,
                  !.cmd.observers_ = IF depth = 0 THEN Compact(@) ELSE @]

\* RemoveFromQueue that removes at once: the queue erases the instance,
\* which destroys it inside the call.
RemoveFromQueue_Immediate(w) ==
  IF w.cmd.queue_
    THEN [NotifyObservers(w, "OnCommandDestroyed") EXCEPT !.cmd = NoCommand]
    ELSE w

RemoveFromQueue(w) ==
  IF w.cmd.queue_ THEN DelayedRemove(w, w.cmd.id_) ELSE w

(***************************************************************************)
(* The status state machine and the public operations.                     *)
(***************************************************************************)
TerminalStatuses == {kDone, kCancelled, kAborted, kExpired}

\* SetStatus without the switch over the terminal statuses.
SetStatus_NoTerminalCase(w, status) ==
  IF status = w.cmd.status_ THEN [w EXCEPT !.ret = TRUE]
  ELSE IF status = kQueued
    THEN ReportInvalidStateTransition(w, w.cmd.status_, status)
  ELSE [NotifyObservers([w EXCEPT !.cmd.status_ = status], "OnStatusChanged")
          EXCEPT !.ret = TRUE]

\* SetStatus without the test for kQueued.
SetStatus_NoQueuedTest(w, status) ==
  IF status = w.cmd.status_ THEN [w EXCEPT !.ret = TRUE]
  ELSE IF w.cmd.status_ \in TerminalStatuses
    THEN ReportInvalidStateTransition(w, w.cmd.status_, status)
  ELSE [NotifyObservers([w EXCEPT !.cmd.status_ = status], "OnStatusChanged")
          EXCEPT !.ret = TRUE]

\* SetStatus without the test for the status the instance already has.
SetStatus_NoSameStatusTest(w, status) ==
  IF status = kQueued
    THEN ReportInvalidStateTransition(w, w.cmd.status_, status)
  ELSE IF w.cmd.status_ \in TerminalStatuses
    THEN ReportInvalidStateTransition(w, w.cmd.status_, status)
  ELSE [NotifyObservers([w EXCEPT !.cmd.status_ = status], "OnStatusChanged")
          EXCEPT !.ret = TRUE]

\* SetStatus with kError among the statuses nothing leaves.
SetStatus_ErrorIsTerminal(w, status) ==
  IF status = w.cmd.status_ THEN [w EXCEPT !.ret = TRUE]
  ELSE IF status = kQueued
    THEN ReportInvalidStateTransition(w, w.cmd.status_, status)
  ELSE IF w.cmd.status_ \in TerminalStatuses \cup {kError}
    THEN ReportInvalidStateTransition(w, w.cmd.status_, status)
  ELSE [NotifyObservers([w EXCEPT !.cmd.status_ = status], "OnStatusChanged")
          EXCEPT !.ret = TRUE]

\* SetStatus that lets a command be cancelled from every status.
SetStatus_CancelFromAny(w, status) ==
  IF status = w.cmd.status_ THEN [w EXCEPT !.ret = TRUE]
  ELSE IF status = kQueued
    THEN ReportInvalidStateTransition(w, w.cmd.status_, status)
  ELSE IF w.cmd.status_ \in TerminalStatuses /\ status # kCancelled
    THEN ReportInvalidStateTransition(w, w.cmd.status_, status)
  ELSE [NotifyObservers([w EXCEPT !.cmd.status_ = status], "OnStatusChanged")
          EXCEPT !.ret = TRUE]

\* SetStatus that tells the observers before it stores the status.
SetStatus_NotifiesFirst(w, status) ==
  IF status = w.cmd.status_ THEN [w EXCEPT !.ret = TRUE]
  ELSE IF status = kQueued
    THEN ReportInvalidStateTransition(w, w.cmd.status_, status)
  ELSE IF w.cmd.status_ \in TerminalStatuses
    THEN ReportInvalidStateTransition(w, w.cmd.status_, status)
  ELSE [NotifyObservers(w, "OnStatusChanged")
          EXCEPT !.cmd.status_ = status, !.ret = TRUE]

SetStatus(w, status) ==
  IF status = w.cmd.status_ THEN [w EXCEPT !.ret = TRUE]
  ELSE IF status = kQueued
    THEN ReportInvalidStateTransition(w, w.cmd.status_, status)
  ELSE IF w.cmd.status_ \in TerminalStatuses
    THEN ReportInvalidStateTransition(w, w.cmd.status_, status)
  ELSE [NotifyObservers([w EXCEPT !.cmd.status_ = status], "OnStatusChanged")
          EXCEPT !.ret = TRUE]

\* A document that fails validation: the call returns false with the error.
ReportValidationError(w, code) ==
  [w EXCEPT !.ret = FALSE, !.error = AddTo(@, code, <<"Validation failed">>)]

\* SetProgress that returns early when the progress is the stored one.
SetProgress_SkipUnchanged(w, progress) ==
  IF w.cmd.command_definition_ = NullDefinition THEN ReportDestroyedError(w)
  ELSE
    LET r == TypedValueFromJson(
               progress.d, Definitions[w.cmd.command_definition_].progress)
        w1 == SetStatus(w, kInProgress)
    IN IF ~r.ok THEN ReportValidationError(w, r.code)
       ELSE IF r.obj = w.cmd.progress_ THEN [w EXCEPT !.ret = TRUE]
       ELSE IF ~w1.ret THEN w1
       ELSE [NotifyObservers([w1 EXCEPT !.cmd.progress_ = r.obj],
                             "OnProgressChanged")
               EXCEPT !.ret = TRUE]

\* SetProgress that asks for the status before it validates the document.
SetProgress_StatusBeforeValidation(w, progress) ==
  IF w.cmd.command_definition_ = NullDefinition THEN ReportDestroyedError(w)
  ELSE
    LET r == TypedValueFromJson(
               progress.d, Definitions[w.cmd.command_definition_].progress)
        w1 == SetStatus(w, kInProgress)
    IN IF ~w1.ret THEN w1
       ELSE IF ~r.ok THEN ReportValidationError(w1, r.code)
       ELSE IF r.obj # w1.cmd.progress_
         THEN [NotifyObservers([w1 EXCEPT !.cmd.progress_ = r.obj],
                               "OnProgressChanged")
                 EXCEPT !.ret = TRUE]
       ELSE [w1 EXCEPT !.ret = TRUE]

\* SetProgress that replaces and announces the progress before it asks for
\* the status, as SetResults does with the results.
SetProgress_ProgressFirst(w, progress) ==
  IF w.cmd.command_definition_ = NullDefinition THEN ReportDestroyedError(w)
  ELSE
    LET r == TypedValueFromJson(
               progress.d, Definitions[w.cmd.command_definition_].progress)
        w1 == IF r.obj # w.cmd.progress_
                THEN NotifyObservers([w EXCEPT !.cmd.progress_ = r.obj],
                                     "OnProgressChanged")
                ELSE w
    IN IF ~r.ok THEN ReportValidationError(w, r.code)
       ELSE SetStatus(w1, kInProgress)

\* SetProgress that forgets the recorded error when the command resumes.
SetProgress_ClearsError(w, progress) ==
  IF w.cmd.command_definition_ = NullDefinition THEN ReportDestroyedError(w)
  ELSE
    LET r == TypedValueFromJson(
               progress.d, Definitions[w.cmd.command_definition_].progress)
        w1 == SetStatus([w EXCEPT !.cmd.error_ = NoError], kInProgress)
        w2 == IF r.obj # w1.cmd.progress_
                THEN NotifyObservers([w1 EXCEPT !.cmd.progress_ = r.obj],
                                     "OnProgressChanged")
                ELSE w1
    IN IF ~r.ok THEN ReportValidationError(w, r.code)
       ELSE IF ~w1.ret THEN w1
       ELSE [w2 EXCEPT !.ret = TRUE]

\* SetProgress that stores the document in the parameters.
SetProgress_StoresInParameters(w, progress) ==
  IF w.cmd.command_definition_ = NullDefinition THEN ReportDestroyedError(w)
  ELSE
    LET r == TypedValueFromJson(
               progress.d, Definitions[w.cmd.command_definition_].progress)
        w1 == SetStatus(w, kInProgress)
    IN IF ~r.ok THEN ReportValidationError(w, r.code)
       ELSE IF ~w1.ret THEN w1
       ELSE IF r.obj # w1.cmd.progress_
         THEN [NotifyObservers([w1 EXCEPT !.cmd.parameters_ = r.obj],
                               "OnProgressChanged")
                 EXCEPT !.ret = TRUE]
       ELSE [w1 EXCEPT !.ret = TRUE]

SetProgress(w, progress) ==
  IF w.cmd.command_definition_ = NullDefinition THEN ReportDestroyedError(w)
  ELSE
    LET r == TypedValueFromJson(
               progress.d, Definitions[w.cmd.command_definition_].progress)
        w1 == SetStatus(w, kInProgress)
    IN IF ~r.ok THEN ReportValidationError(w, r.code)
       ELSE IF ~w1.ret THEN w1
       ELSE IF r.obj # w1.cmd.progress_
         THEN [NotifyObservers([w1 EXCEPT !.cmd.progress_ = r.obj],
                               "OnProgressChanged")
                 EXCEPT !.ret = TRUE]
       ELSE [w1 EXCEPT !.ret = TRUE]

\* SetResults that changes the status before it replaces the results.
SetResults_StatusFirst(w, results) ==
  IF w.cmd.command_definition_ = NullDefinition THEN ReportDestroyedError(w)
  ELSE
    LET r == TypedValueFromJson(
               results.d, Definitions[w.cmd.command_definition_].results)
        w1 == SetStatus(w, kDone)
        w2 == IF r.obj # w1.cmd.results_
                THEN NotifyObservers([w1 EXCEPT !.cmd.results_ = r.obj],
                                     "OnResultsChanged")
                ELSE w1
    IN IF ~r.ok THEN ReportValidationError(w, r.code)
       ELSE [RemoveFromQueue(w2) EXCEPT !.ret = w1.ret]

\* SetResults that completes the command whether or not the document is
\* valid: an invalid one is reported and the results are left as they are.
SetResults_IgnoresValidation(w, results) ==
  IF w.cmd.command_definition_ = NullDefinition THEN ReportDestroyedError(w)
  ELSE
    LET r == TypedValueFromJson(
               results.d, Definitions[w.cmd.command_definition_].results)
        w1 == IF r.ok /\ r.obj # w.cmd.results_
                THEN NotifyObservers([w EXCEPT !.cmd.results_ = r.obj],
                                     "OnResultsChanged")
                ELSE w
        w2 == SetStatus(w1, kDone)
        w3 == IF r.ok THEN w2 ELSE ReportValidationError(w2, r.code)
    IN [RemoveFromQueue(w3) EXCEPT !.ret = w3.ret]

\* SetResults that asks the queue to remove the command only when the
\* command became Done.
SetResults_RemovesWhenDone(w, results) ==
  IF w.cmd.command_definition_ = NullDefinition THEN ReportDestroyedError(w)
  ELSE
    LET r == TypedValueFromJson(
               results.d, Definitions[w.cmd.command_definition_].results)
        w1 == IF r.obj # w.cmd.results_
                THEN NotifyObservers([w EXCEPT !.cmd.results_ = r.obj],
                                     "OnResultsChanged")
                ELSE w
        w2 == SetStatus(w1, kDone)
    IN IF ~r.ok THEN ReportValidationError(w, r.code)
       ELSE IF w2.ret THEN [RemoveFromQueue(w2) EXCEPT !.ret = w2.ret]
       ELSE w2

SetResults(w, results) ==
  IF w.cmd.command_definition_ = NullDefinition THEN ReportDestroyedError(w)
  ELSE
    LET r == TypedValueFromJson(
               results.d, Definitions[w.cmd.command_definition_].results)
        w1 == IF r.obj # w.cmd.results_
                THEN NotifyObservers([w EXCEPT !.cmd.results_ = r.obj],
                                     "OnResultsChanged")
                ELSE w
        w2 == SetStatus(w1, kDone)
    IN IF ~r.ok THEN ReportValidationError(w, r.code)
       ELSE [RemoveFromQueue(w2) EXCEPT !.ret = w2.ret]

\* error_ = command_error ? command_error->Clone() : nullptr
CloneError(command_error) ==
  IF command_error # NoError THEN <<command_error[1]>> ELSE NoError

\* SetError that records the error only once the status was accepted.
SetError_StatusFirst(w, command_error) ==
  LET w1 == SetStatus(w, kError)
  IN IF w1.ret THEN [w1 EXCEPT !.cmd.error_ = CloneError(command_error)]
     ELSE w1

SetError(w, command_error) ==
  SetStatus([w EXCEPT !.cmd.error_ = CloneError(command_error)], kError)

\* Pause that asks the queue to remove the command, as Cancel does.
Pause_RemovesFromQueue(w) ==
  LET w1 == SetStatus(w, kPaused)
  IN [RemoveFromQueue(w1) EXCEPT !.ret = w1.ret]

Pause(w) == SetStatus(w, kPaused)

\* Abort that does not record the error.
Abort_KeepsError(w, command_error) ==
  LET w1 == SetStatus(w, kAborted)
  IN [RemoveFromQueue(w1) EXCEPT !.ret = w1.ret]

Abort(w, command_error) ==
  LET w1 == SetStatus([w EXCEPT !.cmd.error_ = CloneError(command_error)],
                      kAborted)
  IN [RemoveFromQueue(w1) EXCEPT !.ret = w1.ret]

\* Cancel that marks the command expired.
Cancel_Expires(w) ==
  LET w1 == SetStatus(w, kExpired)
  IN [RemoveFromQueue(w1) EXCEPT !.ret = w1.ret]

\* Cancel that clears the recorded error, as Abort does when given none.
Cancel_ClearsError(w) ==
  LET w1 == SetStatus([w EXCEPT !.cmd.error_ = NoError], kCancelled)
  IN [RemoveFromQueue(w1) EXCEPT !.ret = w1.ret]

Cancel(w) ==
  LET w1 == SetStatus(w, kCancelled)
  IN [RemoveFromQueue(w1) EXCEPT !.ret = w1.ret]

\* A destructor that tells the observers only of the end of a command in a
\* terminal status.
Destructor_OnlyTerminal(w) ==
  IF w.cmd.status_ \in TerminalStatuses
    THEN NotifyObservers(w, "OnCommandDestroyed")
    ELSE w

\* The destructor: every observer still registered is told.
Destructor(w) == NotifyObservers(w, "OnCommandDestroyed")

(***************************************************************************)
(* Construction: GetCommandParameters and CommandInstance::FromJson.       *)
(***************************************************************************)
\* GetCommandParameters that converts the parameters without validating
\* them: values the schema rejects are left out.
GetCommandParameters_SkipsValidation(json, command_def) ==
  LET present == "parameters" \in DOMAIN json.d
      params == IF present THEN json.d["parameters"] ELSE JDict(EmptyDict)
      r == TypedValueFromJson(params.d, Definitions[command_def].parameters)
  IN IF present /\ ~IsDict(params)
       THEN [ok |-> FALSE, parameters |-> EmptyDict,
             error |-> AddTo(NoError, kObjectExpected,
                             <<"Property 'parameters' must be a JSON object">>)]
     ELSE [ok |-> TRUE, parameters |-> r.obj, error |-> NoError]

GetCommandParameters(json, command_def) ==
  LET present == "parameters" \in DOMAIN json.d
      params == IF present THEN json.d["parameters"] ELSE JDict(EmptyDict)
      r == TypedValueFromJson(params.d, Definitions[command_def].parameters)
  IN IF present /\ ~IsDict(params)
       THEN [ok |-> FALSE, parameters |-> EmptyDict,
             error |-> AddTo(NoError, kObjectExpected,
                             <<"Property 'parameters' must be a JSON object">>)]
     ELSE IF ~r.ok
       THEN [ok |-> FALSE, parameters |-> EmptyDict,
             error |-> AddTo(NoError, r.code, <<"Validation failed">>)]
     ELSE [ok |-> TRUE, parameters |-> r.obj, error |-> NoError]

\* The result of FromJson: the instance (none on failure), the command id
\* handed back to the caller, and the caller's ErrorPtr.
FromJsonResult(instance, command_id, error) ==
  [instance |-> instance, command_id |-> command_id, error |-> error]

\* FromJson that never clears |command_id|: without a string 'id' in the
\* document the caller's string stays as it was on entry.
FromJson_KeepsStaleId(value, origin, command_id) ==
  LET id == IF HasString(value, "id") THEN value.d["id"].v ELSE command_id
      command_name == value.d["name"].v
      command_def == FindCommand(command_name)
      p == GetCommandParameters(value, command_def)
      instance == CommandInstance(command_name, origin, command_def,
                                  p.parameters)
  IN IF ~IsDict(value)
       THEN FromJsonResult(NoCommand, command_id,
              AddTo(NoError, kObjectExpected,
                    <<"Command instance is not a JSON object">>))
     ELSE IF ~HasString(value, "name")
       THEN FromJsonResult(NoCommand, id,
              AddTo(NoError, kPropertyMissing, <<"Command name is missing">>))
     ELSE IF command_def = NullDefinition
       THEN FromJsonResult(NoCommand, id,
              AddTo(NoError, kInvalidCommandName,
                    <<"Unknown command received", command_name>>))
     ELSE IF ~p.ok
       THEN FromJsonResult(NoCommand, id,
              AddTo(p.error, kCommandFailed,
                    <<"Failed to validate command", command_name>>))
     ELSE FromJsonResult(
            IF id # "" THEN [instance EXCEPT !.id_ = id] ELSE instance,
            id, NoError)

\* FromJson without the test of the name: a document without a string
\* 'name' is looked up under the empty name.
FromJson_NoNameTest(value, origin, command_id) ==
  LET id == IF HasString(value, "id") THEN value.d["id"].v ELSE ""
      command_name == IF HasString(value, "name") THEN value.d["name"].v
                      ELSE ""
      command_def == FindCommand(command_name)
      p == GetCommandParameters(value, command_def)
      instance == CommandInstance(command_name, origin, command_def,
                                  p.parameters)
  IN IF ~IsDict(value)
       THEN FromJsonResult(NoCommand, "",
              AddTo(NoError, kObjectExpected,
                    <<"Command instance is not a JSON object">>))
     ELSE IF command_def = NullDefinition
       THEN FromJsonResult(NoCommand, id,
              AddTo(NoError, kInvalidCommandName,
                    <<"Unknown command received", command_name>>))
     ELSE IF ~p.ok
       THEN FromJsonResult(NoCommand, id,
              AddTo(p.error, kCommandFailed,
                    <<"Failed to validate command", command_name>>))
     ELSE FromJsonResult(
            IF id # "" THEN [instance EXCEPT !.id_ = id] ELSE instance,
            id, NoError)

\* FromJson that constructs every instance as a local command.
FromJson_LocalOnly(value, origin, command_id) ==
  LET id == IF HasString(value, "id") THEN value.d["id"].v ELSE ""
      command_name == value.d["name"].v
      command_def == FindCommand(command_name)
      p == GetCommandParameters(value, command_def)
      instance == CommandInstance(command_name, kLocal, command_def,
                                  p.parameters)
  IN IF ~IsDict(value)
       THEN FromJsonResult(NoCommand, "",
              AddTo(NoError, kObjectExpected,
                    <<"Command instance is not a JSON object">>))
     ELSE IF ~HasString(value, "name")
       THEN FromJsonResult(NoCommand, id,
              AddTo(NoError, kPropertyMissing, <<"Command name is missing">>))
     ELSE IF command_def = NullDefinition
       THEN FromJsonResult(NoCommand, id,
              AddTo(NoError, kInvalidCommandName,
                    <<"Unknown command received", command_name>>))
     ELSE IF ~p.ok
       THEN FromJsonResult(NoCommand, id,
              AddTo(p.error, kCommandFailed,
                    <<"Failed to validate command", command_name>>))
     ELSE FromJsonResult(
            IF id # "" THEN [instance EXCEPT !.id_ = id] ELSE instance,
            id, NoError)

\* |command_id| is the caller's string as it is on entry.
FromJson(value, origin, command_id) ==
  LET id == IF HasString(value, "id") THEN value.d["id"].v ELSE ""
      command_name == value.d["name"].v
      command_def == FindCommand(command_name)
      p == GetCommandParameters(value, command_def)
      instance == CommandInstance(command_name, origin, command_def,
                                  p.parameters)
  IN IF ~IsDict(value)
       THEN FromJsonResult(NoCommand, "",
              AddTo(NoError, kObjectExpected,
                    <<"Command instance is not a JSON object">>))
     ELSE IF ~HasString(value, "name")
       THEN FromJsonResult(NoCommand, id,
              AddTo(NoError, kPropertyMissing, <<"Command name is missing">>))
     ELSE IF command_def = NullDefinition
       THEN FromJsonResult(NoCommand, id,
              AddTo(NoError, kInvalidCommandName,
                    <<"Unknown command received", command_name>>))
     ELSE IF ~p.ok
       THEN FromJsonResult(NoCommand, id,
              AddTo(p.error, kCommandFailed,
                    <<"Failed to validate command", command_name>>))
     ELSE FromJsonResult(
            IF id # "" THEN [instance EXCEPT !.id_ = id] ELSE instance,
            id, NoError)

(***************************************************************************)
(* The inputs of the operations.                                           *)
(***************************************************************************)
\* Command requests as they arrive, each with the origin it arrives from:
\* requests of the cloud carry the id the server gave them, local ones none.
\* Well-formed requests, and one for each way construction can fail.
CommandRequests ==
  { <<JString("lock.setConfig"), kCloud>>,
    <<JDict([id |-> JString("1"), name |-> JString("lock.setConfig"),
             parameters |-> JDict([lockedState |-> JString("locked")])]),
      kCloud>>,
    <<JDict([name |-> JString("lock.setConfig"),
             parameters |-> JDict([lockedState |-> JString("open")])]),
      kLocal>>,
    <<JDict([name |-> JString("unknown.cmd")]), kLocal>>,
    <<JDict([id |-> JString("2")]), kCloud>>,
    <<JDict([id |-> JInteger(1), name |-> JInteger(1)]), kCloud>>,
    <<JDict([id |-> JString("1"), name |-> JString("robot.jump"),
             parameters |-> JString("high")]), kCloud>>,
    <<JDict([name |-> JString("robot.jump"),
             parameters |-> JDict([height |-> JInteger(MaxValue)])]),
      kLocal>> }

\* A field of a document: left out, or present with one of the values.
Field(key, values) == {EmptyDict} \cup {key :> v : v \in values}

\* Every document made of an 'id', a 'name' and a 'parameters' field, each
\* left out, well-formed or malformed, and one value that is no object.
RequestDocuments ==
  { JString("lock.setConfig") }
  \cup
  { JDict(id @@ name @@ parameters) :
      id \in Field("id", {JString("1"), JString(""), JInteger(1)}),
      name \in Field("name", {JString("lock.setConfig"), JString("robot.jump"),
                              JString("unknown.cmd"), JInteger(1)}),
      parameters \in Field("parameters",
        { JString("high"), JDict(EmptyDict),
          JDict([lockedState |-> JString("locked")]),
          JDict([lockedState |-> JString("open")]),
          JDict([lockedState |-> JInteger(0)]),
          JDict([speed |-> JInteger(0)]) }
        \cup { JDict([height |-> JInteger(n)]) : n \in IntValues }) }

ProgressDocuments ==
  { JDict(EmptyDict), JDict([progress |-> JString("half")]) }
  \cup { JDict([progress |-> JInteger(n)]) : n \in IntValues }

ResultsDocuments ==
  { JDict(EmptyDict), JDict([testResult |-> JString("ok")]) }
  \cup { JDict([testResult |-> JInteger(n)]) : n \in IntValues }

\* The errors a handler reports with SetError and Abort; NoError is a null
\* command_error.
CommandErrors ==
  { NoError,
    <<[code |-> "invalid_parameter_value", message |-> <<"Invalid parameters">>]>>,
    <<[code |-> "device_busy", message |-> <<"Device is busy">>]>> }

(***************************************************************************)
(* State: the instance, the queue that owns it, and the last call.         *)
(***************************************************************************)
VARIABLES
  cmd,               \* the CommandInstance, or NoCommand
  map_,              \* CommandQueue: the ids of the instances it owns
  remove_queue_,     \* CommandQueue: the ids scheduled for removal
  next_command_id_,  \* the ids handed out so far
  call               \* the last call: its inputs, result, error and events

vars == <<cmd, map_, remove_queue_, next_command_id_, call>>

\* |to| is the status the call asks for; a call that asks for none names the
\* status the instance has.  |origin| is the origin FromJson is given; the
\* other calls are given none and carry kLocal.
Call(op, to, doc, command_error, w, command_id) ==
  [op |-> op, to |-> to, doc |-> doc, command_error |-> command_error,
   ret |-> w.ret, error |-> w.error, log |-> w.log,
   command_id |-> command_id, origin |-> kLocal, before |-> cmd]

NoDocument == JDict(EmptyDict)

Init ==
  /\ cmd = NoCommand
  /\ map_ = {}
  /\ remove_queue_ = {}
  /\ next_command_id_ = 0
  /\ call = [op |-> "none", to |-> kQueued, doc |-> NoDocument, command_error |-> NoError,
             ret |-> TRUE, error |-> NoError, log |-> <<>>,
             command_id |-> "", origin |-> kLocal, before |-> NoCommand]

\* The caller's command id string holds an earlier value on entry.
StaleCommandId == "stale"

FromJsonCall(value, origin) ==
  /\ cmd = NoCommand
  /\ LET r == FromJson(value, origin, StaleCommandId)
     IN /\ cmd' = r.instance
        /\ call' = [Call("FromJson", kQueued, value, NoError,
                         [ret |-> r.instance # NoCommand, error |-> r.error,
                          log |-> <<>>], r.command_id)
                      EXCEPT !.origin = origin]
  /\ UNCHANGED <<map_, remove_queue_, next_command_id_>>

\* CommandQueue::Add that gives an id only to an instance that has none: an
\* instance keeps the id its document carried.
Add_KeepsDocumentId ==
  /\ cmd # NoCommand
  /\ ~cmd.queue_
  /\ next_command_id_ < MaxCommands
  /\ LET fresh == cmd.id_ = ""
         id == IF fresh THEN ToString(next_command_id_ + 1) ELSE cmd.id_
     IN /\ cmd' = [cmd EXCEPT !.id_ = id, !.queue_ = TRUE]
        /\ map_' = map_ \cup {id}
        /\ call' = Call("Add", cmd.status_, NoDocument, NoError,
                        World(cmd, remove_queue_), id)
  /\ next_command_id_' = next_command_id_ + 1
  /\ UNCHANGED remove_queue_

\* CommandQueue::Add: the instance is given the next id of the process,
\* whatever id it came with, and the queue becomes its owner.
Add ==
  /\ cmd # NoCommand
  /\ ~cmd.queue_
  /\ next_command_id_ < MaxCommands
  /\ LET id == ToString(next_command_id_ + 1)
     IN /\ cmd' = [cmd EXCEPT !.id_ = id, !.queue_ = TRUE]
        /\ map_' = map_ \cup {id}
        /\ call' = Call("Add", cmd.status_, NoDocument, NoError,
                        World(cmd, remove_queue_), id)
  /\ next_command_id_' = next_command_id_ + 1
  /\ UNCHANGED remove_queue_

\* A call of a public operation on the instance.
Apply(op, to, doc, command_error, w) ==
  /\ cmd' = w.cmd
  /\ remove_queue_' = w.remove_queue_
  /\ call' = Call(op, to, doc, command_error, w, cmd.id_)
  /\ UNCHANGED <<map_, next_command_id_>>

SetProgressCall(progress) ==
  /\ cmd # NoCommand
  /\ Apply("SetProgress", kInProgress, progress, NoError,
           SetProgress(World(cmd, remove_queue_), progress))

SetResultsCall(results) ==
  /\ cmd # NoCommand
  /\ Apply("SetResults", kDone, results, NoError,
           SetResults(World(cmd, remove_queue_), results))

SetErrorCall(command_error) ==
  /\ cmd # NoCommand
  /\ Apply("SetError", kError, NoDocument, command_error,
           SetError(World(cmd, remove_queue_), command_error))

PauseCall ==
  /\ cmd # NoCommand
  /\ Apply("Pause", kPaused, NoDocument, NoError, Pause(World(cmd, remove_queue_)))

AbortCall(command_error) ==
  /\ cmd # NoCommand
  /\ Apply("Abort", kAborted, NoDocument, command_error,
           Abort(World(cmd, remove_queue_), command_error))

CancelCall ==
  /\ cmd # NoCommand
  /\ Apply("Cancel", kCancelled, NoDocument, NoError, Cancel(World(cmd, remove_queue_)))

AddObserverCall(observer) ==
  /\ cmd # NoCommand
  /\ Apply("AddObserver", cmd.status_, NoDocument, NoError,
           AddObserver(World(cmd, remove_queue_), observer))

RemoveObserverCall(observer) ==
  /\ cmd # NoCommand
  /\ \E i \in 1..Len(cmd.observers_) : cmd.observers_[i] = observer
  /\ Apply("RemoveObserver", cmd.status_, NoDocument, NoError,
           RemoveObserver(World(cmd, remove_queue_), observer))

\* The queue's deferred task, run between calls: every scheduled id is
\* erased from the queue, which destroys the instance it owns under that id.
Cleanup ==
  /\ remove_queue_ # {}
  /\ LET destroyed == cmd # NoCommand /\ cmd.queue_ /\ cmd.id_ \in remove_queue_
         w == IF destroyed THEN Destructor(World(cmd, {}))
              ELSE World(cmd, {})
     IN /\ cmd' = IF destroyed THEN NoCommand ELSE cmd
        /\ call' = Call("Cleanup", cmd.status_, NoDocument, NoError, w, "")
  /\ map_' = map_ \ remove_queue_
  /\ remove_queue_' = {}
  /\ UNCHANGED next_command_id_

\* An instance no queue owns is destroyed when its owner lets go of it.
Discard ==
  /\ cmd # NoCommand
  /\ ~cmd.queue_
  /\ cmd' = NoCommand
  /\ call' = Call("Discard", cmd.status_, NoDocument, NoError,
                  Destructor(World(cmd, remove_queue_)), "")
  /\ UNCHANGED <<map_, remove_queue_, next_command_id_>>

Next ==
  \/ \E request \in CommandRequests : FromJsonCall(request[1], request[2])
  \/ Add
  \/ \E progress \in ProgressDocuments : SetProgressCall(progress)
  \/ \E results \in ResultsDocuments : SetResultsCall(results)
  \/ \E command_error \in CommandErrors : SetErrorCall(command_error)
  \/ PauseCall
  \/ \E command_error \in CommandErrors : AbortCall(command_error)
  \/ CancelCall
  \/ \E observer \in PassiveObservers : AddObserverCall(observer)
  \/ \E observer \in PassiveObservers : RemoveObserverCall(observer)
  \/ Cleanup
  \/ Discard

Spec == Init /\ [][Next]_vars

(***************************************************************************)
(* The status machine from every status.  SetStatus is private and the     *)
(* public operations ask for six of the eight statuses only, so this       *)
(* specification draws the status the instance has from the whole enum     *)
(* and also calls SetStatus with every target.                             *)
(***************************************************************************)
\* A locally issued command, constructed directly with its parameters.
DirectInstance(status, queued) ==
  [CommandInstance("robot.jump", kLocal, FindCommand("robot.jump"),
                   [height |-> [type |-> "integer", value |-> MaxValue]])
     EXCEPT !.status_ = status,
            !.id_ = IF queued THEN "1" ELSE "",
            !.queue_ = queued]

InitStatus ==
  /\ \E status \in CommandStatus, queued \in BOOLEAN :
       /\ cmd = DirectInstance(status, queued)
       /\ map_ = IF queued THEN {"1"} ELSE {}
  /\ remove_queue_ = {}
  /\ next_command_id_ = 0
  /\ call = [op |-> "none", to |-> cmd.status_, doc |-> NoDocument,
             command_error |-> NoError, ret |-> TRUE, error |-> NoError,
             log |-> <<>>, command_id |-> "", origin |-> kLocal,
             before |-> NoCommand]

SetStatusCall(status) ==
  /\ cmd # NoCommand
  /\ Apply("SetStatus", status, NoDocument, NoError,
           SetStatus(World(cmd, remove_queue_), status))

NextStatus ==
  \/ \E status \in CommandStatus : SetStatusCall(status)
  \/ \E progress \in ProgressDocuments : SetProgressCall(progress)
  \/ \E results \in ResultsDocuments : SetResultsCall(results)
  \/ \E command_error \in CommandErrors : SetErrorCall(command_error)
  \/ PauseCall
  \/ \E command_error \in CommandErrors : AbortCall(command_error)
  \/ CancelCall
  \/ \E observer \in PassiveObservers : AddObserverCall(observer)

SpecStatus == InitStatus /\ [][NextStatus]_vars

(***************************************************************************)
(* Observers that act from inside their callbacks.  The instance is a      *)
(* locally issued robot.jump command, constructed directly; beside a proxy *)
(* that only reads, its observers are one that removes itself at the first *)
(* notification and one that cancels the command it sees go in progress.   *)
(***************************************************************************)
ReentrantObservers == {"cloud"} \cup ReactiveObservers

InitReentrant ==
  /\ \E queued \in BOOLEAN :
       /\ cmd = DirectInstance(kQueued, queued)
       /\ map_ = IF queued THEN {"1"} ELSE {}
  /\ remove_queue_ = {}
  /\ next_command_id_ = 0
  /\ call = [op |-> "none", to |-> kQueued, doc |-> NoDocument,
             command_error |-> NoError, ret |-> TRUE, error |-> NoError,
             log |-> <<>>, command_id |-> "", origin |-> kLocal,
             before |-> NoCommand]

NextReentrant ==
  \/ \E observer \in ReentrantObservers : AddObserverCall(observer)
  \/ \E observer \in ReentrantObservers : RemoveObserverCall(observer)
  \/ \E progress \in ProgressDocuments : SetProgressCall(progress)
  \/ \E results \in ResultsDocuments : SetResultsCall(results)
  \/ \E command_error \in CommandErrors : SetErrorCall(command_error)
  \/ PauseCall
  \/ \E command_error \in CommandErrors : AbortCall(command_error)
  \/ CancelCall
  \/ Cleanup
  \/ Discard

SpecReentrant == InitReentrant /\ [][NextReentrant]_vars

(***************************************************************************)
(* Construction from every request document: FromJson is given each        *)
(* document of RequestDocuments from each origin; an instance it returns   *)
(* is added to the queue or dropped, and a queued one is cancelled and     *)
(* removed, which makes room for the next request.                         *)
(***************************************************************************)
NextFromJson ==
  \/ \E value \in RequestDocuments, origin \in CommandOrigin :
       FromJsonCall(value, origin)
  \/ Add
  \/ CancelCall
  \/ Cleanup
  \/ Discard

SpecFromJson == Init /\ [][NextFromJson]_vars

(***************************************************************************)
(* Several commands in the queue.  The caller that added an instance to    *)
(* the queue has moved it there and turns to the next request; the queue   *)
(* keeps the instances it owns under their ids.                            *)
(***************************************************************************)
\* The caller lets go of an instance the queue owns and has not been asked
\* to remove.
HandOver ==
  /\ cmd # NoCommand
  /\ cmd.queue_
  /\ cmd.id_ \notin remove_queue_
  /\ cmd' = NoCommand
  /\ call' = Call("HandOver", cmd.status_, NoDocument, NoError,
                  World(cmd, remove_queue_), cmd.id_)
  /\ UNCHANGED <<map_, remove_queue_, next_command_id_>>

NextQueue ==
  \/ \E value \in RequestDocuments, origin \in CommandOrigin :
       FromJsonCall(value, origin)
  \/ Add
  \/ HandOver
  \/ CancelCall
  \/ Cleanup
  \/ Discard

SpecQueue == Init /\ [][NextQueue]_vars

(***************************************************************************)
(* Vocabulary of the properties.                                           *)
(***************************************************************************)
\* The calls that ask for a status.
StatusCalls ==
  {"SetStatus", "SetProgress", "SetResults", "SetError", "Pause", "Abort",
   "Cancel"}

\* The outcome of validating the last call's document against the schema
\* its operation uses.
Validated ==
  TypedValueFromJson(
    call.doc.d,
    IF call.op = "SetProgress"
      THEN Definitions[call.before.command_definition_].progress
      ELSE Definitions[call.before.command_definition_].results)

\* The last call got as far as asking for status call.to.
AttemptedTransition ==
  /\ call.op \in StatusCalls
  /\ call.op \in {"SetProgress", "SetResults"} => Validated.ok

\* The ErrorPtr of a call that failed with InvalidStateTransition(from, to).
InvalidStateTransition(from, to) ==
  <<[code |-> kInvalidState,
     message |-> <<"State switch impossible", EnumToString(from),
                   EnumToString(to)>>]>>

\* The events of the last call that are of a kind.
EventsOf(kind) == SelectSeq(call.log, LAMBDA e : e.kind = kind)

\* One notification to each observer of c, in registration order, each
\* showing c.
NotificationsOf(kind, c) ==
  [i \in 1..Len(c.observers_) |-> Event(kind, c.observers_[i], c)]

NonTerminalStatuses == {kQueued, kInProgress, kPaused, kError}

(***************************************************************************)
(* Properties of the status machine.                                       *)
(***************************************************************************)
\* C1 (as stated): whatever status s a call asks for on an instance in a
\* terminal status t, the call fails with InvalidStateTransition and the
\* status stays t.
C1_TerminalFinality_AsStated ==
  (AttemptedTransition /\ call.before.status_ \in TerminalStatuses) =>
    /\ ~call.ret
    /\ call.error = InvalidStateTransition(call.before.status_, call.to)
    /\ cmd.status_ = call.before.status_

\* C1 (amended): on an instance in a terminal status t, a call that asks for
\* a status s other than t fails with InvalidStateTransition(t, s), a call
\* that asks for t itself succeeds, and in both cases the status stays t and
\* no observer is told of a status change.
C1_TerminalFinality ==
  (AttemptedTransition /\ call.before.status_ \in TerminalStatuses) =>
    /\ cmd.status_ = call.before.status_
    /\ EventsOf("OnStatusChanged") = <<>>
    /\ IF call.to = call.before.status_
         THEN call.ret /\ call.error = NoError
         ELSE /\ ~call.ret
              /\ call.error = InvalidStateTransition(call.before.status_, call.to)

\* An expired instance was given valid results and refused the status Done.
C1_Witness ==
  /\ call.op = "SetResults"
  /\ call.before.status_ = kExpired
  /\ Validated.ok
  /\ ~call.ret
  /\ cmd.status_ = kExpired

\* C3 (as stated): from every status, Queued included, a call that asks for
\* Queued fails with InvalidStateTransition.
C3_NoRequeue_AsStated ==
  (call.op = "SetStatus" /\ call.to = kQueued) =>
    /\ ~call.ret
    /\ call.error = InvalidStateTransition(call.before.status_, kQueued)

\* C3 (amended): from every status other than Queued a call that asks for
\* Queued fails with InvalidStateTransition and leaves the status as it
\* was; on a Queued instance it is the same-status call and succeeds
\* without a notification.
C3_NoRequeue ==
  (call.op = "SetStatus" /\ call.to = kQueued) =>
    /\ cmd.status_ = call.before.status_
    /\ call.log = <<>>
    /\ IF call.before.status_ = kQueued
         THEN call.ret /\ call.error = NoError
         ELSE /\ ~call.ret
              /\ call.error = InvalidStateTransition(call.before.status_, kQueued)

\* A paused instance was asked to go back to Queued.
C3_Witness ==
  /\ call.op = "SetStatus"
  /\ call.to = kQueued
  /\ call.before.status_ = kPaused
  /\ ~call.ret

\* C4: a call that asks for the status the instance already has returns
\* success, leaves the status as it is and tells no observer of a status
\* change.
C4_SameStatusNoOp ==
  (AttemptedTransition /\ call.to = call.before.status_) =>
    /\ call.ret
    /\ call.error = NoError
    /\ cmd.status_ = call.before.status_
    /\ EventsOf("OnStatusChanged") = <<>>

\* Pause on a paused instance that has observers.
C4_Witness ==
  /\ call.op = "Pause"
  /\ call.before.status_ = kPaused
  /\ Len(cmd.observers_) = 2
  /\ call.ret

\* C5: from Queued, InProgress, Paused or Error, a call that asks for any
\* other status but Queued succeeds, the instance has that status, and each
\* observer is told once of the status change, seeing the new status.
C5_PermittedTransitions ==
  ( /\ AttemptedTransition
    /\ call.before.status_ \in NonTerminalStatuses
    /\ call.to \in CommandStatus \ {kQueued, call.before.status_} ) =>
    /\ call.ret
    /\ call.error = NoError
    /\ cmd.status_ = call.to
    /\ Len(EventsOf("OnStatusChanged")) = Len(cmd.observers_)
    /\ \A i \in 1..Len(cmd.observers_) :
         /\ EventsOf("OnStatusChanged")[i].to = cmd.observers_[i]
         /\ EventsOf("OnStatusChanged")[i].json.d.state
              = JString(EnumToString(call.to))

\* An instance in the error status was paused, and its two observers told.
C5_Witness ==
  /\ call.op = "Pause"
  /\ call.before.status_ = kError
  /\ cmd.status_ = kPaused
  /\ Len(EventsOf("OnStatusChanged")) = 2

(***************************************************************************)
(* Properties of the public operations.                                    *)
(***************************************************************************)
PublicOperations ==
  {"SetProgress", "SetResults", "SetError", "Pause", "Abort", "Cancel"}

\* The removal request the queue receives from an instance it owns.
RemovalRequest(c) ==
  IF c.queue_ THEN <<Event("DelayedRemove", "CommandQueue", c)>> ELSE <<>>

\* C2: no public operation on an instance in a terminal status changes its
\* progress or its results or announces a change of results.
C2_TerminalFrame ==
  (call.op \in PublicOperations /\ call.before.status_ \in TerminalStatuses) =>
    /\ cmd.progress_ = call.before.progress_
    /\ cmd.results_ = call.before.results_
    /\ EventsOf("OnResultsChanged") = <<>>

\* C6: SetResults with a valid document on an instance in a non-terminal
\* status returns success, and its events are, in this order: the
\* notifications of the replaced results (only if they differ from the
\* stored ones), the notifications of the status Done, and the removal
\* request to the owning queue.
C6_SetResultsOrder ==
  ( /\ call.op = "SetResults"
    /\ Validated.ok
    /\ call.before.status_ \in NonTerminalStatuses ) =>
    LET replaced == [call.before EXCEPT !.results_ = Validated.obj]
        done == [replaced EXCEPT !.status_ = kDone]
    IN /\ call.ret
       /\ call.error = NoError
       /\ cmd = done
       /\ call.log =
            (IF Validated.obj # call.before.results_
               THEN NotificationsOf("OnResultsChanged", replaced) ELSE <<>>)
            \o NotificationsOf("OnStatusChanged", done)
            \o RemovalRequest(done)
       /\ call.before.queue_ => cmd.id_ \in remove_queue_

\* A queued command in progress with two observers was completed with new
\* results.
C6_Witness ==
  /\ call.op = "SetResults"
  /\ call.ret
  /\ call.before.status_ = kInProgress
  /\ cmd.queue_
  /\ Len(EventsOf("OnResultsChanged")) = 2
  /\ Len(call.log) = 5

C8_SetProgress ==
  ( /\ call.op = "SetProgress"
    /\ Validated.ok
    /\ call.before.status_ \in NonTerminalStatuses ) =>
    LET started == [call.before EXCEPT !.status_ = kInProgress]
        updated == [started EXCEPT !.progress_ = Validated.obj]
    IN /\ call.ret
       /\ call.error = NoError
       /\ cmd = updated
       /\ call.log =
            (IF call.before.status_ # kInProgress
               THEN NotificationsOf("OnStatusChanged", started) ELSE <<>>)
            \o (IF Validated.obj # call.before.progress_
                  THEN NotificationsOf("OnProgressChanged", updated)
                  ELSE <<>>)

\* A paused command was given the progress it already had, and went in
\* progress.
C8_Witness ==
  /\ call.op = "SetProgress"
  /\ call.ret
  /\ call.before.status_ = kPaused
  /\ call.before.progress_ # EmptyDict
  /\ Validated.obj = call.before.progress_
  /\ cmd.status_ = kInProgress
  /\ cmd.observers_ # <<>>

\* C9: Pause and SetError on an instance in a non-terminal status succeed
\* and ask for no removal: the command stays in its queue; and whenever the
\* status is Paused or Error, SetProgress with any valid document succeeds
\* and leaves the status InProgress.
C9_PausedErrorResumable ==
  /\ ( /\ call.op \in {"Pause", "SetError"}
       /\ call.before.status_ \in NonTerminalStatuses ) =>
       /\ call.ret
       /\ cmd.status_ = call.to
       /\ EventsOf("DelayedRemove") = <<>>
       /\ cmd.id_ \notin remove_queue_
       /\ call.before.queue_ => (cmd.queue_ /\ cmd.id_ \in map_)
  /\ (cmd # NoCommand /\ cmd.status_ \in {kPaused, kError}) =>
       \A progress \in ProgressDocuments :
         TypedValueFromJson(
           progress.d, Definitions[cmd.command_definition_].progress).ok =>
           LET w == SetProgress(World(cmd, remove_queue_), progress)
           IN w.ret /\ w.cmd.status_ = kInProgress
  /\ ( /\ call.op = "SetProgress"
       /\ Validated.ok
       /\ call.before.status_ \in {kPaused, kError} ) =>
       call.ret /\ cmd.status_ = kInProgress

\* A queued command that had failed was resumed by SetProgress.
C9_Witness ==
  /\ call.op = "SetProgress"
  /\ call.before.status_ = kError
  /\ call.before.error_ # NoError
  /\ cmd.status_ = kInProgress
  /\ cmd.queue_
  /\ cmd.id_ \in map_
  /\ remove_queue_ = {}

\* C10: Abort on an instance in a non-terminal status returns success,
\* leaves the given error recorded (none when given none) and the status
\* Aborted, tells the observers of the status, and then asks the owning
\* queue for the removal.
C10_Abort ==
  (call.op = "Abort" /\ call.before.status_ \in NonTerminalStatuses) =>
    LET aborted == [call.before EXCEPT !.error_ = call.command_error,
                                       !.status_ = kAborted]
    IN /\ call.ret
       /\ call.error = NoError
       /\ cmd = aborted
       /\ call.log = NotificationsOf("OnStatusChanged", aborted)
                       \o RemovalRequest(aborted)
       /\ call.before.queue_ => cmd.id_ \in remove_queue_
       /\ call.command_error # NoError =>
            ToJson(cmd).d.error = ErrorInfoToJson(call.command_error[1])

\* A queued command that had failed with one error was aborted with another.
C10_Witness ==
  /\ call.op = "Abort"
  /\ call.command_error # NoError
  /\ call.before.error_ # NoError
  /\ call.before.error_ # call.command_error
  /\ cmd.status_ = kAborted
  /\ cmd.queue_
  /\ cmd.id_ \in remove_queue_

\* C11: Cancel on an instance in a non-terminal status, Queued included,
\* returns success and leaves the status Cancelled; the observers are told
\* of the status, then the owning queue is asked for the removal; the
\* parameters, the progress, the results and the recorded error are as they
\* were before the call.
C11_Cancel ==
  (call.op = "Cancel" /\ call.before.status_ \in NonTerminalStatuses) =>
    LET cancelled == [call.before EXCEPT !.status_ = kCancelled]
    IN /\ call.ret
       /\ call.error = NoError
       /\ cmd.status_ = kCancelled
       /\ cmd = cancelled
       /\ call.log = NotificationsOf("OnStatusChanged", cancelled)
                       \o RemovalRequest(cancelled)
       /\ call.before.queue_ => cmd.id_ \in remove_queue_
       /\ ~call.before.queue_ => remove_queue_ = {}
       /\ cmd.parameters_ = call.before.parameters_
       /\ cmd.progress_ = call.before.progress_
       /\ cmd.results_ = call.before.results_
       /\ cmd.error_ = call.before.error_
       /\ \A k \in {"parameters", "progress", "results"} :
            ToJson(cmd).d[k] = ToJson(call.before).d[k]
       /\ ("error" \in DOMAIN ToJson(cmd).d)
            = ("error" \in DOMAIN ToJson(call.before).d)

\* A command still Queued, owned by the queue and carrying parameters, was
\* cancelled while an observer was registered.
C11_Witness ==
  /\ call.op = "Cancel"
  /\ call.before.status_ = kQueued
  /\ call.before.parameters_ # EmptyDict
  /\ cmd.status_ = kCancelled
  /\ cmd.queue_
  /\ cmd.id_ \in remove_queue_
  /\ cmd.observers_ # <<>>

(***************************************************************************)
(* Properties of the notifications.                                        *)
(***************************************************************************)
\* The places in the last call's events of the notifications of a kind to
\* an observer.
PositionsOf(kind, observer) ==
  {i \in 1..Len(call.log) :
     call.log[i].kind = kind /\ call.log[i].to = observer}

\* The status changes of the last call: none when the status is as it was,
\* one when it is the status the call asked for, two when an observer's
\* callback changed it again.
StatusChanges ==
  IF cmd.status_ = call.before.status_ THEN 0
  ELSE IF cmd.status_ = call.to THEN 1
  ELSE 2

\* The observer was registered when the first status change of the last
\* call happened: it was registered before the call and, if it is the one
\* that removes itself, no earlier notification of the call reached it.
RegisteredAtStatusChange(observer) ==
  /\ \E i \in 1..Len(call.before.observers_) :
       call.before.observers_[i] = observer
  /\ observer = "unsubscriber" =>
       \A i \in PositionsOf("OnResultsChanged", observer) :
         \E j \in PositionsOf("OnStatusChanged", observer) : j < i

\* C12: in every call of a public operation, each status change tells each
\* observer registered at that time exactly once (the observer that removes
\* itself at its first notification is told of the first change only); for
\* each change the observers are told in registration order; every
\* notification shows a status stored by the call, never the one the
\* instance had before it, and the last one shows the status the instance
\* has when the call returns; a call that leaves the status as it was tells
\* nobody of a status change.
C12_StatusNotification ==
  call.op \in PublicOperations =>
    LET observers == call.before.observers_
        events == EventsOf("OnStatusChanged")
        Told(o) == PositionsOf("OnStatusChanged", o)
        Rank(o, p) == Cardinality({q \in Told(o) : q <= p})
    IN /\ \A i \in 1..Len(observers) :
            Cardinality(Told(observers[i])) =
              IF ~RegisteredAtStatusChange(observers[i]) THEN 0
              ELSE IF observers[i] = "unsubscriber"
                THEN (IF StatusChanges > 0 THEN 1 ELSE 0)
              ELSE StatusChanges
       /\ Len(events) =
            Cardinality(UNION {Told(observers[i]) : i \in 1..Len(observers)})
       /\ \A i, j \in 1..Len(observers) :
            i < j =>
              \A p \in Told(observers[i]), q \in Told(observers[j]) :
                Rank(observers[i], p) = Rank(observers[j], q) => p < q
       /\ \A i \in 1..Len(events) :
            /\ events[i].json.d.state
                 \in {JString(EnumToString(call.to)),
                      JString(EnumToString(cmd.status_))}
            /\ events[i].json.d.state
                 # JString(EnumToString(call.before.status_))
       /\ events # <<>> =>
            events[Len(events)].json.d.state
              = JString(EnumToString(cmd.status_))

\* SetProgress on a paused command with three observers: the second one
\* cancelled the command from its callback, and each of the three was told
\* of both status changes.
C12_Witness ==
  /\ call.op = "SetProgress"
  /\ call.before.status_ = kPaused
  /\ call.before.observers_ = <<"cloud", "canceller", "unsubscriber">>
  /\ cmd.status_ = kCancelled
  /\ Len(EventsOf("OnStatusChanged")) = 5

(***************************************************************************)
(* Properties of construction.                                             *)
(***************************************************************************)
\* The 'parameters' of a request document, an empty object when left out.
ParametersOf(value) ==
  IF "parameters" \in DOMAIN value.d THEN value.d["parameters"]
  ELSE JDict(EmptyDict)

\* The ways a request document is rejected: it is not an object, it has no
\* string 'name', no command of that name is registered, its 'parameters'
\* are not an object, or they fail validation against the parameter schema.
NotAnObject(value) == ~IsDict(value)
NameMissing(value) == IsDict(value) /\ ~HasString(value, "name")
UnknownCommand(value) ==
  /\ IsDict(value)
  /\ HasString(value, "name")
  /\ value.d["name"].v \notin DOMAIN Definitions
ParametersNotAnObject(value) ==
  /\ IsDict(value)
  /\ HasString(value, "name")
  /\ value.d["name"].v \in DOMAIN Definitions
  /\ ~IsDict(ParametersOf(value))
ParametersInvalid(value) ==
  /\ IsDict(value)
  /\ HasString(value, "name")
  /\ value.d["name"].v \in DOMAIN Definitions
  /\ IsDict(ParametersOf(value))
  /\ ValidationError(ParametersOf(value).d,
                     Definitions[value.d["name"].v].parameters) # ""

Rejected(value) ==
  \/ NotAnObject(value)
  \/ NameMissing(value)
  \/ UnknownCommand(value)
  \/ ParametersNotAnObject(value)
  \/ ParametersInvalid(value)

\* The best-effort id of a request document.
BestEffortId(value) ==
  IF IsDict(value) /\ HasString(value, "id") THEN value.d["id"].v ELSE ""

\* C13: FromJson fails exactly on the rejected documents; a failed FromJson
\* returns no instance, an error, and as command id the document's string
\* 'id' when the document is an object that has one and the empty string
\* otherwise, never the string the caller's variable held on entry; nothing
\* is queued and no instance, hence no status, exists.
C13_FromJsonFailure ==
  call.op = "FromJson" =>
    /\ call.ret = ~Rejected(call.doc)
    /\ ~call.ret =>
         /\ cmd = NoCommand
         /\ call.error # NoError
         /\ call.command_id = BestEffortId(call.doc)
         /\ call.command_id # StaleCommandId
         /\ map_ = {}
         /\ remove_queue_ = {}
         /\ ~ENABLED Add

\* A request with id "1" was rejected because its parameters failed
\* validation, and the id came back.
C13_Witness ==
  /\ call.op = "FromJson"
  /\ ~call.ret
  /\ ParametersInvalid(call.doc)
  /\ call.command_id = "1"
  /\ cmd = NoCommand

\* The parameters of a request for a registered command give a string
\* outside the enumeration its schema declares, and nothing else is wrong
\* with them.
OutsideEnumeration(value) ==
  /\ ParametersInvalid(value)
  /\ LET schema == Definitions[value.d["name"].v].parameters
         params == ParametersOf(value).d
     IN /\ DOMAIN params \subseteq DOMAIN schema
        /\ \A k \in DOMAIN params : params[k].t = schema[k].type
        /\ \E k \in DOMAIN params :
             /\ schema[k].type = "string"
             /\ schema[k].enum # {}
             /\ params[k].v \notin schema[k].enum

\* C14: FromJson on a request whose parameter is a string outside the
\* enumeration of its schema fails; the caller's error is the failure to
\* validate the command with, as its cause, InvalidParameterValue; the
\* command id handed back is the document's string id, "" when it has
\* none; and no instance exists, with or without parameters.
C14_EnumRejection ==
  (call.op = "FromJson" /\ OutsideEnumeration(call.doc)) =>
    /\ ~call.ret
    /\ cmd = NoCommand
    /\ Len(call.error) = 2
    /\ call.error[1].code = kCommandFailed
    /\ call.error[2].code = kInvalidPropValue
    /\ call.command_id = BestEffortId(call.doc)
    /\ ~HasString(call.doc, "id") => call.command_id = ""
    /\ map_ = {}

\* lock.setConfig with lockedState "open" and no id was submitted and
\* rejected.
C14_Witness ==
  /\ call.op = "FromJson"
  /\ call.doc = JDict([name |-> JString("lock.setConfig"),
                       parameters |-> JDict([lockedState |-> JString("open")])])
  /\ ~call.ret
  /\ call.command_id = ""
  /\ call.error[2].code = kInvalidPropValue

\* C15: FromJson on a document that names a registered command and whose
\* parameters, an empty object when the document has none, conform to the
\* parameter schema returns an instance and no error: its status is Queued,
\* its progress and results are empty, it records no error, it has no
\* observer and no queue, its name and origin are the given ones, its
\* parameters are the document's, and its id is the document's string id
\* (the empty string when the document has none), which is also the command
\* id handed back.
C15_Construction ==
  (call.op = "FromJson" /\ ~Rejected(call.doc)) =>
    /\ call.ret
    /\ call.error = NoError
    /\ cmd # NoCommand
    /\ cmd.status_ = kQueued
    /\ cmd.progress_ = EmptyDict
    /\ cmd.results_ = EmptyDict
    /\ cmd.error_ = NoError
    /\ cmd.observers_ = <<>>
    /\ ~cmd.queue_
    /\ cmd.name_ = call.doc.d["name"].v
    /\ cmd.origin_ = call.origin
    /\ cmd.id_ = BestEffortId(call.doc)
    /\ call.command_id = cmd.id_
    /\ ToJson(cmd).d["parameters"] = ParametersOf(call.doc)
    /\ ToJson(cmd).d["state"] = JString("queued")
    /\ "error" \notin DOMAIN ToJson(cmd).d

\* A cloud request for lock.setConfig with id "1" and no 'parameters' field
\* was constructed.
C15_Witness ==
  /\ call.op = "FromJson"
  /\ call.doc = JDict([id |-> JString("1"), name |-> JString("lock.setConfig")])
  /\ call.origin = kCloud
  /\ cmd # NoCommand
  /\ cmd.id_ = "1"
  /\ cmd.origin_ = kCloud
  /\ cmd.parameters_ = EmptyDict
  /\ cmd.status_ = kQueued

(***************************************************************************)
(* Properties of the instance's data.                                      *)
(***************************************************************************)
\* What the instance reports of its construction: id, name and parameters
\* as ToJson shows them, the parameters as GetParameters returns them, and
\* the origin.
IdentityOf(c) ==
  [id |-> ToJson(c).d["id"], name |-> ToJson(c).d["name"],
   parameters |-> ToJson(c).d["parameters"],
   GetParameters |-> GetParameters(c), origin |-> c.origin_]

\* C16: whatever public operations have been called since the construction
\* and whatever the observers did in their callbacks, the instance reports
\* the name, the origin and the parameters it was constructed with; no call
\* of SetProgress, SetResults, SetError, Pause, Abort or Cancel changes the
\* id, the name, the origin or the parameters, and every observer reading
\* the instance in a callback of the call sees them as they were before it.
C16_ParametersImmutable ==
  /\ cmd # NoCommand =>
       /\ ToJson(cmd).d["name"] = JString("robot.jump")
       /\ cmd.origin_ = kLocal
       /\ GetParameters(cmd) = JDict([height |-> JInteger(MaxValue)])
       /\ ToJson(cmd).d["parameters"] = GetParameters(cmd)
  /\ (call.op \in PublicOperations /\ cmd # NoCommand) =>
       /\ IdentityOf(cmd) = IdentityOf(call.before)
       /\ \A i \in 1..Len(call.log) :
            \A k \in {"id", "name", "parameters"} :
              call.log[i].json.d[k] = ToJson(call.before).d[k]

\* A queued command with a cancelling observer has progress and results,
\* is Cancelled, and has just refused SetResults.
C16_Witness ==
  /\ call.op = "SetResults"
  /\ ~call.ret
  /\ cmd.status_ = kCancelled
  /\ cmd.progress_ # EmptyDict
  /\ cmd.results_ # EmptyDict
  /\ cmd.queue_
  /\ \E i \in 1..Len(cmd.observers_) : cmd.observers_[i] = "canceller"

\* The name of each status in the documents sent to the callers.
StateName(status) ==
  CASE status = kQueued -> "queued"
    [] status = kInProgress -> "inProgress"
    [] status = kPaused -> "paused"
    [] status = kError -> "error"
    [] status = kDone -> "done"
    [] status = kCancelled -> "cancelled"
    [] status = kAborted -> "aborted"
    [] status = kExpired -> "expired"

\* C17: the document ToJson gives of an instance has the fields id, name,
\* parameters, progress, results and state, and beside them the field error
\* exactly when the instance records an error; state is the name of the
\* status the instance has, one of the eight names; the other fields are the
\* instance's id, name, typed values and recorded error.  The documents the
\* observers obtain inside the callbacks of a call have the same fields.
C17_ToJson ==
  /\ cmd # NoCommand =>
       LET json == ToJson(cmd)
       IN /\ IsDict(json)
          /\ DOMAIN json.d \ {"error"}
               = {"id", "name", "parameters", "progress", "results", "state"}
          /\ json.d["state"] = JString(StateName(cmd.status_))
          /\ json.d["state"].v
               \in {"queued", "inProgress", "paused", "error", "done",
                    "cancelled", "aborted", "expired"}
          /\ ("error" \in DOMAIN json.d) = (cmd.error_ # NoError)
          /\ cmd.error_ # NoError =>
               json.d["error"] = ErrorInfoToJson(cmd.error_[1])
          /\ json.d["id"] = JString(cmd.id_)
          /\ json.d["name"] = JString(cmd.name_)
          /\ json.d["parameters"] = JDict(TypedValueToJson(cmd.parameters_))
          /\ json.d["progress"] = JDict(TypedValueToJson(cmd.progress_))
          /\ json.d["results"] = JDict(TypedValueToJson(cmd.results_))
  /\ \A i \in 1..Len(call.log) :
       /\ DOMAIN call.log[i].json.d \ {"error"}
            = {"id", "name", "parameters", "progress", "results", "state"}
       /\ call.log[i].json.d["state"].v
            \in {StateName(status) : status \in CommandStatus}
       /\ ("error" \in DOMAIN call.log[i].json.d) = (cmd.error_ # NoError)

\* An expired instance records an error (SetError on it was refused), and
\* its document says "expired" and carries the error.
C17_Witness ==
  /\ cmd # NoCommand
  /\ cmd.status_ = kExpired
  /\ call.op = "SetError"
  /\ ~call.ret
  /\ ToJson(cmd).d["state"] = JString("expired")
  /\ "error" \in DOMAIN ToJson(cmd).d

\* C18: in every call after which the status is Done and before which it
\* was not, the call is SetResults, its document is valid against the
\* results schema, and it returns success; an instance is never Done when
\* constructed; so Pause, SetProgress, SetError, Abort, Cancel and a
\* SetResults with an invalid document never complete a command.
C18_DoneOnlyBySetResults ==
  /\ ( /\ cmd # NoCommand
       /\ cmd.status_ = kDone
       /\ call.before # NoCommand
       /\ call.before.status_ # kDone ) =>
       /\ call.op = "SetResults"
       /\ Validated.ok
       /\ call.ret
       /\ call.to = kDone
  /\ (cmd # NoCommand /\ call.before = NoCommand) => cmd.status_ = kQueued
  /\ (call.op = "SetResults" /\ ~Validated.ok) =>
       /\ ~call.ret
       /\ cmd.status_ = call.before.status_

\* A command that had failed was completed by SetResults with a valid
\* document.
C18_Witness ==
  /\ call.op = "SetResults"
  /\ Validated.ok
  /\ call.before.status_ = kError
  /\ cmd.status_ = kDone
  /\ call.ret

(***************************************************************************)
(* Properties of the observer list.                                        *)
(***************************************************************************)
\* The observer is in the list.
Registered(observers, observer) ==
  \E i \in 1..Len(observers) : observers[i] = observer

\* The last call made again on the instance c.
Replay(c) ==
  CASE call.op = "SetProgress" -> SetProgress(World(c, {}), call.doc)
    [] call.op = "SetResults" -> SetResults(World(c, {}), call.doc)
    [] call.op = "SetError" -> SetError(World(c, {}), call.command_error)
    [] call.op = "Pause" -> Pause(World(c, {}))
    [] call.op = "Abort" -> Abort(World(c, {}), call.command_error)
    [] call.op = "Cancel" -> Cancel(World(c, {}))
    [] call.op \in {"Cleanup", "Discard"} ->
         IF cmd = NoCommand THEN Destructor(World(c, {})) ELSE World(c, {})

\* C19: when the observer that removes itself inside its callback is
\* registered and a call notifies the observers, it is notified once, at
\* the first notification of the call, and is not in the list afterwards;
\* the other observers stay registered in their order, and they receive
\* exactly the notifications, in the same order and showing the same
\* instance, that they receive when the call is made without the removing
\* observer registered: none is skipped and none is told twice.  An observer
\* that is not registered when a call starts is told nothing in it.
C19_SelfRemoval ==
  ( /\ call.op \in PublicOperations \cup {"Cleanup", "Discard"}
    /\ call.before # NoCommand ) =>
    LET before == call.before.observers_
        others == SelectSeq(before, LAMBDA o : o # "unsubscriber")
        ToOthers == SelectSeq(call.log, LAMBDA e : e.to # "unsubscriber")
        ToRemoved == SelectSeq(call.log, LAMBDA e : e.to = "unsubscriber")
        notified == \E i \in 1..Len(call.log) : call.log[i].kind # "DelayedRemove"
    IN /\ \A i \in 1..Len(call.log) :
            \/ call.log[i].kind = "DelayedRemove"
            \/ Registered(before, call.log[i].to)
       /\ Registered(before, "unsubscriber") =>
            /\ Len(ToRemoved) = IF notified THEN 1 ELSE 0
            /\ ToOthers = Replay([call.before EXCEPT !.observers_ = others]).log
            /\ cmd # NoCommand =>
                 /\ cmd.observers_ = IF notified THEN others ELSE before
                 /\ cmd.notify_depth_ = 0
            /\ notified =>
                 \E i \in 1..Len(call.log) :
                   /\ call.log[i].to = "unsubscriber"
                   /\ call.log[i].kind = call.log[1].kind
                   /\ \A j \in 1..(i - 1) :
                        call.log[j].kind = call.log[1].kind

\* The removing observer was registered first, before two others: a call
\* told it once and told each of the others, and it is registered no more.
C19_Witness ==
  /\ call.op = "Pause"
  /\ call.before.observers_ = <<"unsubscriber", "cloud", "canceller">>
  /\ cmd.status_ = kPaused
  /\ cmd.observers_ = <<"cloud", "canceller">>
  /\ Len(call.log) = 3

\* C20: when an instance is destroyed, by the queue's deferred removal or by
\* the owner of an instance no queue owns, in whatever status it is, the
\* events of the destruction are one OnCommandDestroyed to each registered
\* observer, in registration order, and nothing else; OnCommandDestroyed is
\* sent at no other time; and once the instance is gone no operation can be
\* called on it, so that no notification of its status, progress or results
\* follows.
C20_DestructionNotified ==
  /\ ( /\ call.op \in {"Cleanup", "Discard"}
       /\ call.before # NoCommand
       /\ cmd = NoCommand ) =>
       /\ call.log = NotificationsOf("OnCommandDestroyed", call.before)
       /\ \A i \in 1..Len(call.before.observers_) :
            Cardinality(PositionsOf("OnCommandDestroyed",
                                    call.before.observers_[i])) = 1
  /\ call.op = "Discard" => cmd = NoCommand
  /\ EventsOf("OnCommandDestroyed") # <<>> =>
       /\ cmd = NoCommand
       /\ call.op \in {"Cleanup", "Discard"}
  /\ cmd = NoCommand =>
       /\ \A i \in 1..Len(call.log) : call.log[i].kind = "OnCommandDestroyed"
       /\ ~ENABLED PauseCall
       /\ ~ENABLED CancelCall
       /\ ~ENABLED (\E progress \in ProgressDocuments : SetProgressCall(progress))
       /\ ~ENABLED (\E results \in ResultsDocuments : SetResultsCall(results))

\* A paused command with two observers that no queue owned was destroyed,
\* and both were told.
C20_Witness ==
  /\ call.op = "Discard"
  /\ call.before.status_ = kPaused
  /\ Len(call.before.observers_) = 2
  /\ Len(EventsOf("OnCommandDestroyed")) = 2
  /\ cmd = NoCommand

(***************************************************************************)
(* Properties of the queue.                                                *)
(***************************************************************************)
\* C21 (state): no id in the queue is the empty string, and an instance the
\* queue owns has an id that is in the queue.
C21_QueuedIds ==
  /\ "" \notin map_
  /\ (cmd # NoCommand /\ cmd.queue_) =>
       (cmd.id_ # "" /\ cmd.id_ \in map_)
  /\ remove_queue_ \subseteq map_

\* C21: whatever ids the request documents carried, the same one, the
\* empty string or none, every instance in the queue has a non-empty id,
\* and every Add puts the instance in the queue under an id no instance in
\* the queue has: the queue holds one more id after it.
C21_QueueIdentity ==
  /\ []C21_QueuedIds
  /\ [][call'.op = "Add" =>
          /\ cmd'.queue_
          /\ cmd'.id_ # ""
          /\ cmd'.id_ \notin map_
          /\ map_' = map_ \cup {cmd'.id_}
          /\ Cardinality(map_') = Cardinality(map_) + 1]_vars

\* An instance whose document carried the id "1" was added while the queue
\* owned an instance under the id "1".
C21_Witness ==
  /\ call.op = "Add"
  /\ call.before.id_ = "1"
  /\ "1" \in map_
  /\ cmd.id_ # "1"
  /\ Cardinality(map_) = 2

(***************************************************************************)
(* Properties of the history of an instance.                               *)
(***************************************************************************)
\* The statuses the instance shows in the course of the last call: the one
\* before the call, the one each notification of the call shows, in order,
\* and the one after the call.
StatusHistory ==
  <<JString(EnumToString(call.before.status_))>>
  \o [i \in 1..Len(call.log) |-> call.log[i].json.d["state"]]
  \o <<JString(EnumToString(cmd.status_))>>

\* A status may follow another in the history of an instance: nothing but
\* Queued follows itself into Queued, and a terminal status is followed by
\* itself only.
MayFollow(from, to) ==
  /\ to = JString("queued") => from = JString("queued")
  /\ from \in {JString(EnumToString(status)) : status \in TerminalStatuses} =>
       to = from

\* C22: from one call to the next, and inside every call from one
\* notification to the next (calls made by observers from their callbacks
\* included), the status does not return to Queued once it has left it and
\* does not change once it is terminal.
C22_StatusHistory ==
  /\ [](( /\ call.op \in PublicOperations
          /\ call.before # NoCommand
          /\ cmd # NoCommand ) =>
          \A i \in 1..(Len(StatusHistory) - 1) :
            MayFollow(StatusHistory[i], StatusHistory[i + 1]))
  /\ [][(cmd # NoCommand /\ cmd' # NoCommand) =>
          /\ cmd.status_ # kQueued => cmd'.status_ # kQueued
          /\ cmd.status_ \in TerminalStatuses => cmd'.status_ = cmd.status_]_vars

\* SetProgress on a queued command whose only observer cancels it from the
\* callback: the command is Cancelled when SetProgress returns.
C22_Witness ==
  /\ call.op = "SetProgress"
  /\ call.before.status_ = kQueued
  /\ call.before.observers_ = <<"canceller">>
  /\ cmd.status_ = kCancelled
  /\ Len(call.log) >= 2

(***************************************************************************)
(* Properties of the failures.                                             *)
(***************************************************************************)
\* The ErrorPtr of a call that failed with CommandDestroyed.
CommandDestroyed ==
  <<[code |-> kCommandDestroyed, message |-> <<"Command has been destroyed">>]>>

\* The call failed with this world and left the instance c and the removals
\* rq as they were, with no event.
FailedWithoutEffect(w, c, rq) ==
  /\ ~w.ret
  /\ w.error # NoError
  /\ w.cmd = c
  /\ w.remove_queue_ = rq
  /\ w.log = <<>>

\* C23: a SetProgress or SetResults whose document fails validation returns
\* failure with the validation error and leaves the instance as it was
\* (status, progress, results, recorded error and all), with no
\* notification and no removal request; and SetProgress and SetResults on
\* an instance whose definition is gone fail with CommandDestroyed, whatever
\* the document, with no effect either.
C23_FailureBeforeStatus ==
  /\ (call.op \in {"SetProgress", "SetResults"} /\ ~Validated.ok) =>
       /\ ~call.ret
       /\ Len(call.error) = 1
       /\ call.error[1].code = Validated.code
       /\ cmd = call.before
       /\ cmd.status_ = call.before.status_
       /\ cmd.progress_ = call.before.progress_
       /\ cmd.results_ = call.before.results_
       /\ cmd.error_ = call.before.error_
       /\ call.log = <<>>
  /\ cmd # NoCommand =>
       LET gone == [cmd EXCEPT !.command_definition_ = NullDefinition]
       IN /\ \A progress \in ProgressDocuments :
               LET w == SetProgress(World(gone, remove_queue_), progress)
               IN FailedWithoutEffect(w, gone, remove_queue_)
                    /\ w.error = CommandDestroyed
          /\ \A results \in ResultsDocuments :
               LET w == SetResults(World(gone, remove_queue_), results)
               IN FailedWithoutEffect(w, gone, remove_queue_)
                    /\ w.error = CommandDestroyed

\* A queued command in progress, with progress and an observer, was given
\* results that miss the required property, and refused them.
C23_Witness ==
  /\ call.op = "SetResults"
  /\ ~Validated.ok
  /\ Validated.code = kPropertyMissing
  /\ call.before.status_ = kInProgress
  /\ call.before.progress_ # EmptyDict
  /\ cmd.observers_ # <<>>
  /\ cmd.queue_
  /\ ~call.ret

\* The codes of an error chain, the newest error first.
CodesOf(error) == [i \in 1..Len(error) |-> error[i].code]

\* C24: the error of a failed FromJson is that of the first step that
\* fails, and of no later step: object-expected with the id cleared for a
\* value that is no object; PropertyMissing for a missing or non-string
\* name, whatever the parameters; InvalidCommandName for a name that is not
\* registered, whatever the parameters; and for parameters that are present
\* but no object, the failure to validate the command with object-expected
\* as its cause.
C24_FirstFailingStep ==
  call.op = "FromJson" =>
    /\ NotAnObject(call.doc) =>
         /\ CodesOf(call.error) = <<kObjectExpected>>
         /\ call.error[1].message = <<"Command instance is not a JSON object">>
         /\ call.command_id = ""
    /\ NameMissing(call.doc) =>
         CodesOf(call.error) = <<kPropertyMissing>>
    /\ UnknownCommand(call.doc) =>
         CodesOf(call.error) = <<kInvalidCommandName>>
    /\ ParametersNotAnObject(call.doc) =>
         /\ CodesOf(call.error) = <<kCommandFailed, kObjectExpected>>
         /\ call.error[2].message
              = <<"Property 'parameters' must be a JSON object">>
    /\ Rejected(call.doc) => (~call.ret /\ cmd = NoCommand)

\* A document with id "1", no name and parameters that are no object was
\* rejected for the missing name alone.
C24_Witness ==
  /\ call.op = "FromJson"
  /\ call.doc = JDict([id |-> JString("1"), parameters |-> JString("high")])
  /\ CodesOf(call.error) = <<kPropertyMissing>>
  /\ call.command_id = "1"
  /\ ~call.ret

(***************************************************************************)
(* Properties of the order inside a call.                                  *)
(***************************************************************************)
\* C25: in a SetProgress with a valid document, every status notification
\* comes before every progress notification; an observer reading the
\* instance in OnStatusChanged sees the status InProgress and the progress
\* of before the call, one reading it in OnProgressChanged sees InProgress
\* and the new progress; and when the status is refused (the instance is in
\* a terminal status) the call fails, the progress is as it was and nobody
\* is told of anything.
C25_StatusBeforeProgress ==
  (call.op = "SetProgress" /\ Validated.ok) =>
    LET old == ToJson(call.before).d["progress"]
        new == JDict(TypedValueToJson(Validated.obj))
    IN /\ call.log = EventsOf("OnStatusChanged") \o EventsOf("OnProgressChanged")
       /\ \A i \in 1..Len(EventsOf("OnStatusChanged")) :
            /\ EventsOf("OnStatusChanged")[i].json.d["state"]
                 = JString("inProgress")
            /\ EventsOf("OnStatusChanged")[i].json.d["progress"] = old
       /\ \A i \in 1..Len(EventsOf("OnProgressChanged")) :
            /\ EventsOf("OnProgressChanged")[i].json.d["state"]
                 = JString("inProgress")
            /\ EventsOf("OnProgressChanged")[i].json.d["progress"] = new
            /\ new # old
       /\ call.before.status_ \in TerminalStatuses =>
            /\ ~call.ret
            /\ call.error
                 = InvalidStateTransition(call.before.status_, kInProgress)
            /\ cmd.progress_ = call.before.progress_
            /\ call.log = <<>>
       /\ call.before.status_ \in NonTerminalStatuses =>
            /\ cmd.progress_ = Validated.obj
            /\ (EventsOf("OnStatusChanged") # <<>>)
                 = (call.before.status_ # kInProgress /\ cmd.observers_ # <<>>)

\* A paused command with progress and two observers was given a different
\* progress: two status notifications, then two progress notifications.
C25_Witness ==
  /\ call.op = "SetProgress"
  /\ call.before.status_ = kPaused
  /\ call.before.progress_ # EmptyDict
  /\ cmd.progress_ # call.before.progress_
  /\ Len(EventsOf("OnStatusChanged")) = 2
  /\ Len(EventsOf("OnProgressChanged")) = 2
  /\ call.log[1].kind = "OnStatusChanged"

\* C26: when an observer cancels or aborts the command from inside the
\* status notification of a SetProgress on a non-terminal instance, so that
\* the status is terminal when the notification returns, the SetProgress
\* leaves the progress as it was and sends no progress notification.
C26_TerminalProgressFixed ==
  ( /\ call.op = "SetProgress"
    /\ call.before.status_ \in NonTerminalStatuses
    /\ cmd.status_ \in TerminalStatuses ) =>
      /\ cmd.progress_ = call.before.progress_
      /\ EventsOf("OnProgressChanged") = <<>>

\* The last call was one of those that ask the queue for the removal.
AsksForRemoval ==
  \/ call.op \in {"Abort", "Cancel"}
  \/ call.op = "SetResults" /\ Validated.ok

\* C27: SetResults with a valid document, Abort and Cancel ask the queue
\* that owns the instance for its delayed removal once in every call,
\* whether the status changed, was the same already or was refused, and ask
\* nothing when no queue owns the instance; the other operations never
\* ask.  A call on an instance whose removal is pending already asks again,
\* for the same id.
C27_RemovalRequested ==
  /\ [](call.op \in PublicOperations =>
         /\ EventsOf("DelayedRemove")
              = (IF AsksForRemoval THEN RemovalRequest(cmd) ELSE <<>>)
         /\ cmd.queue_ = call.before.queue_
         /\ (AsksForRemoval /\ cmd.queue_) => cmd.id_ \in remove_queue_)
  /\ [][ ( /\ cmd # NoCommand
           /\ call'.op \in PublicOperations )
         => /\ remove_queue_ \subseteq remove_queue_'
            /\ remove_queue_' \subseteq remove_queue_ \cup {cmd.id_}
            /\ (cmd.queue_ /\ cmd.id_ \in remove_queue_ /\ AsksForRemoval')
                 => /\ remove_queue_' = remove_queue_
                    /\ call'.log[Len(call'.log)].kind = "DelayedRemove" ]_vars

\* The completion of a queued command that was aborted before was refused,
\* and the queue was asked for the removal all the same.
C27_Witness ==
  /\ call.op = "SetResults"
  /\ Validated.ok
  /\ call.before.status_ = kAborted
  /\ call.before.queue_
  /\ ~call.ret
  /\ call.error = InvalidStateTransition(kAborted, kDone)
  /\ Len(EventsOf("DelayedRemove")) = 1
  /\ cmd.id_ \in remove_queue_

(***************************************************************************)
(* Properties of the recorded error.                                       *)
(***************************************************************************)
\* C28: after SetError or Abort the recorded error is the one given, none
\* when none was given, whatever the call returned, and the observers told
\* of the status read it already; on an instance in a terminal status other
\* than the one asked for, the call fails with InvalidStateTransition, the
\* status stays, and GetError and ToJson show the error of the call.
C28_ErrorBeforeTransition ==
  call.op \in {"SetError", "Abort"} =>
    /\ cmd.error_ = call.command_error
    /\ ("error" \in DOMAIN ToJson(cmd).d) = (call.command_error # NoError)
    /\ call.command_error # NoError =>
         ToJson(cmd).d["error"] = ErrorInfoToJson(call.command_error[1])
    /\ \A i \in 1..Len(call.log) :
         ("error" \in DOMAIN call.log[i].json.d)
           = (call.command_error # NoError)
    /\ ( /\ call.before.status_ \in TerminalStatuses
         /\ call.before.status_ # call.to ) =>
         /\ ~call.ret
         /\ call.error = InvalidStateTransition(call.before.status_, call.to)
         /\ cmd = [call.before EXCEPT !.error_ = call.command_error]
         /\ EventsOf("OnStatusChanged") = <<>>

\* SetError without an error was refused on a completed command that held
\* an error, and the error is gone.
C28_Witness ==
  /\ call.op = "SetError"
  /\ call.command_error = NoError
  /\ call.before.status_ = kDone
  /\ call.before.error_ # NoError
  /\ ~call.ret
  /\ cmd.status_ = kDone
  /\ cmd.error_ = NoError
  /\ "error" \notin DOMAIN ToJson(cmd).d

\* C29: only SetError and Abort change the recorded error of an instance.
\* SetProgress, SetResults, Pause and Cancel leave it as it was, whether
\* they succeed or fail, and every notification they send reads it; so the
\* command that resumes after SetError is InProgress with the 'error' field
\* of that error in ToJson, and has it still when Done or Cancelled.
C29_ErrorFrame ==
  /\ [](call.op \in {"SetProgress", "SetResults", "Pause", "Cancel"} =>
         /\ cmd.error_ = call.before.error_
         /\ ("error" \in DOMAIN ToJson(cmd).d) = (call.before.error_ # NoError)
         /\ call.before.error_ # NoError =>
              /\ ToJson(cmd).d["error"]
                   = ErrorInfoToJson(call.before.error_[1])
              /\ \A i \in 1..Len(call.log) :
                   call.log[i].json.d["error"]
                     = ErrorInfoToJson(call.before.error_[1]))
  /\ [][ (cmd # NoCommand /\ cmd' # NoCommand /\ cmd'.error_ # cmd.error_)
           => call'.op \in {"SetError", "Abort"} ]_vars

\* A command in progress that held the error of an earlier SetError was
\* completed, and its JSON form shows state done with that error.
C29_Witness ==
  /\ call.op = "SetResults"
  /\ call.before.status_ = kInProgress
  /\ call.before.error_ # NoError
  /\ cmd.status_ = kDone
  /\ ToJson(cmd).d["state"] = JString("done")
  /\ ToJson(cmd).d["error"] = ErrorInfoToJson(call.before.error_[1])

(***************************************************************************)
(* Properties of the reachable statuses.                                   *)
(***************************************************************************)
\* C30: an instance constructed by FromJson and driven by SetProgress,
\* SetResults, SetError, Pause, Abort and Cancel is never Expired: its
\* status is one of Queued, InProgress, Paused, Error, Done, Cancelled and
\* Aborted, no operation asks for Expired, and no notification reads the
\* state expired.
C30_ExpiredUnreachable ==
  /\ cmd # NoCommand =>
       cmd.status_ \in {kQueued, kInProgress, kPaused, kError, kDone,
                        kCancelled, kAborted}
  /\ call.op \in PublicOperations =>
       /\ call.to \in {kInProgress, kPaused, kError, kDone, kCancelled,
                        kAborted}
       /\ \A i \in 1..Len(call.log) :
            call.log[i].json.d["state"] # JString(EnumToString(kExpired))

\* A paused command was aborted: the last of the seven statuses to be
\* reached from Queued.
C30_Witness ==
  /\ call.op = "Abort"
  /\ call.before.status_ = kPaused
  /\ call.ret
  /\ cmd.status_ = kAborted
  /\ kExpired \notin {cmd.status_, call.before.status_, call.to}
====
